---- MODULE Spec2Model ----
(***************************************************************************)
(* HashiCorp Vault credential plugins (awx/main/credential_plugins/        *)
(* hashivault.py): kv_backend, ssh_backend and create_temporary_fifo.      *)
(*                                                                         *)
(* Text that the code processes character by character (secret_path, url,  *)
(* role) is a sequence of one-character strings; the scheme and authority  *)
(* of a URL are one element.  Bytes and code points are numbers.  A backend *)
(* invocation is a process i \in Inv; the writer thread started by          *)
(* create_temporary_fifo and the TLS stack reading the CA path are          *)
(* processes of their own.                                                  *)
(***************************************************************************)
EXTENDS Integers, Sequences, FiniteSets, TLC

----------------------------------------------------------------------------
(* Bounds of the model *)

NInv == 2
MaxLen == 3
MaxCa == 2
PipeCap == 1

(* Program constant: request_kwargs = { 'timeout': 30 } *)
Timeout == 30

Inv == 1..NInv

----------------------------------------------------------------------------
(* Text helpers: str.lstrip, str.rstrip, str.join, str.split *)

SLASH == "/"

RECURSIVE lstrip(_, _)
lstrip(s, c) ==
    IF s # <<>> /\ Head(s) = c THEN lstrip(Tail(s), c) ELSE s

(* A variant of rstrip that removes one trailing c only *)
rstripOnce(s, c) ==
    IF s # <<>> /\ s[Len(s)] = c THEN SubSeq(s, 1, Len(s) - 1) ELSE s

RECURSIVE rstrip(_, _)
rstrip(s, c) ==
    IF s # <<>> /\ s[Len(s)] = c THEN rstrip(SubSeq(s, 1, Len(s) - 1), c) ELSE s

RECURSIVE join(_, _)
join(sep, parts) ==
    IF parts = <<>> THEN <<>>
    ELSE IF Len(parts) = 1 THEN parts[1]
    ELSE parts[1] \o <<sep>> \o join(sep, Tail(parts))

(* s.split(c): the maximal runs between occurrences of c, empty runs kept *)
RECURSIVE splitAcc(_, _, _)
splitAcc(s, c, cur) ==
    IF s = <<>> THEN <<cur>>
    ELSE IF Head(s) = c THEN <<cur>> \o splitAcc(Tail(s), c, <<>>)
    ELSE splitAcc(Tail(s), c, Append(cur, Head(s)))

split(s, c) == splitAcc(s, c, <<>>)

RECURSIVE SelectParts(_)
SelectParts(segs) ==
    IF segs = <<>> THEN <<>>
    ELSE IF Head(segs) = <<>> \/ Head(segs) = <<".">> THEN SelectParts(Tail(segs))
    ELSE <<Head(segs)>> \o SelectParts(Tail(segs))

(* pathlib.Path(s).parts on a POSIX host: the root (if s is absolute), then *)
(* the components, with empty and "." components dropped                    *)
PathParts(s) ==
    LET root == IF s # <<>> /\ Head(s) = SLASH
                THEN (IF Len(s) >= 2 /\ s[2] = SLASH /\ (Len(s) = 2 \/ s[3] # SLASH)
                      THEN << <<SLASH, SLASH>> >> ELSE << <<SLASH>> >>)
                ELSE <<>>
    IN  root \o SelectParts(split(s, SLASH))

(* urllib.parse.urljoin(base, ref) for a relative reference ref that is one *)
(* plain path segment: base = <<scheme and authority>> \o path.  An empty   *)
(* base path gives "/" + ref; otherwise ref replaces what follows the last  *)
(* "/" of the base path (RFC 3986, 5.2.3).                                  *)
RECURSIVE UpToLastSlash(_)
UpToLastSlash(p) ==
    IF p = <<>> THEN <<>>
    ELSE IF p[Len(p)] = SLASH THEN p
    ELSE UpToLastSlash(SubSeq(p, 1, Len(p) - 1))

urljoin(base, ref) ==
    LET origin == <<Head(base)>>
        path == Tail(base)
    IN  IF path = <<>> THEN origin \o <<SLASH>> \o ref
        ELSE origin \o UpToLastSlash(path) \o ref

(* str.encode(): UTF-8, one byte below U+0080, two bytes below U+0800 *)
RECURSIVE encode(_)
encode(text) ==
    IF text = <<>> THEN <<>>
    ELSE LET cp == Head(text)
         IN  (IF cp < 128 THEN <<cp>>
              ELSE <<192 + (cp \div 64), 128 + (cp % 64)>>) \o encode(Tail(text))

----------------------------------------------------------------------------
(* Python values.  A JSON value is tagged with its kind; a dict is a        *)
(* function from its keys to JSON values.                                   *)

EmptyDict == [k \in {} |-> 0]
Null == [kind |-> "null", val |-> ""]
Str(s) == [kind |-> "str", val |-> s]
Obj(f) == [kind |-> "obj", val |-> f]

(* A variant of GetItem that behaves as dict.get: None for a missing key *)
GetItemOrNone(x, k) ==
    IF x.kind = "obj"
    THEN IF k \in DOMAIN x.val THEN [exc |-> "", val |-> x.val[k]]
         ELSE [exc |-> "", val |-> Null]
    ELSE [exc |-> "TypeError", val |-> Null]

(* x[k]: KeyError on a dict without k, TypeError on a str or None *)
GetItem(x, k) ==
    IF x.kind = "obj"
    THEN IF k \in DOMAIN x.val THEN [exc |-> "", val |-> x.val[k]]
         ELSE [exc |-> "KeyError", val |-> Null]
    ELSE [exc |-> "TypeError", val |-> Null]

(* kwargs is a function from the names of the supplied parameters.          *)
(* Truthy(kw, k) is bool(kw.get(k)): the parameter is there and not empty.  *)
(* url, secret_path, role and cacert are sequences, the others plain strings *)
SeqParams == {"url", "secret_path", "role", "cacert"}
Truthy(kw, k) ==
    k \in DOMAIN kw /\ (IF k \in SeqParams THEN kw[k] # <<>> ELSE kw[k] # "")

Drop(kw, ks) == [k \in DOMAIN kw \ ks |-> kw[k]]

(* The first name of names (in order) that kwargs lacks, or "" *)
RECURSIVE FirstMissing(_, _)
FirstMissing(kw, names) ==
    IF names = <<>> THEN ""
    ELSE IF Head(names) \notin DOMAIN kw THEN Head(names)
    ELSE FirstMissing(kw, Tail(names))

(* What an invocation ends with: a returned value or a raised exception *)
NoOutcome == [kind |-> "none", exc |-> "", val |-> Null, key |-> "", path |-> <<>>]
Return(v) == [kind |-> "value", exc |-> "", val |-> v, key |-> "", path |-> <<>>]
Raise(e) == [kind |-> "raise", exc |-> e, val |-> Null, key |-> "", path |-> <<>>]
RaiseKey(e, k) == [kind |-> "raise", exc |-> e, val |-> Null, key |-> k, path |-> <<>>]
(* RuntimeError('{} is not present at {}'.format(secret_key, secret_path)) *)
NotPresent(k, p) == [kind |-> "raise", exc |-> "RuntimeError", val |-> Null, key |-> k, path |-> p]

----------------------------------------------------------------------------
(* Responses of the remote service *)

NetErr == [kind |-> "neterr", status |-> 0, isjson |-> FALSE, body |-> Null]
Http(st, b) == [kind |-> "http", status |-> st, isjson |-> TRUE, body |-> b]
HttpText(st) == [kind |-> "http", status |-> st, isjson |-> FALSE, body |-> Null]

(* A variant of raise_for_status that raises for server errors only *)
raiseForServerError(resp) == 500 <= resp.status /\ resp.status < 600

(* requests.Response.raise_for_status: HTTPError for 4xx and 5xx *)
raise_for_status(resp) == 400 <= resp.status /\ resp.status < 600

----------------------------------------------------------------------------
(* kv_backend and ssh_backend, the sequential part *)

V1 == <<"v", "1">>
DATA == <<"d", "a", "t", "a">>
SIGN == <<"s", "i", "g", "n">>

(* mount_point, *path = pathlib.Path(secret_path.lstrip(os.sep)).parts      *)
(* raises ValueError when there are no parts                                *)
Unpack(parts) ==
    IF parts = <<>> THEN [exc |-> "ValueError", mount_point |-> <<>>, path |-> <<>>]
    ELSE [exc |-> "", mount_point |-> Head(parts), path |-> Tail(parts)]

(* A variant of Decompose without the except clause *)
DecomposeNoFallback(secret_path) == Unpack(PathParts(lstrip(secret_path, SLASH)))

(* try: ... except Exception: mount_point, path = secret_path, [] *)
Decompose(secret_path) ==
    LET u == Unpack(PathParts(lstrip(secret_path, SLASH)))
    IN  IF u.exc # "" THEN [exc |-> "", mount_point |-> secret_path, path |-> <<>>]
        ELSE u

(* request_kwargs before the request is built: timeout and, with a CA, verify *)
BaseKwargs(vfy) ==
    IF vfy = <<>> THEN [k \in {"timeout"} |-> Timeout]
    ELSE [k \in {"timeout", "verify"} |-> IF k = "timeout" THEN Timeout ELSE vfy]

Extend(f, key, v) == [k \in DOMAIN f \cup {key} |-> IF k = key THEN v ELSE f[k]]

(* lines 113-126 and 131-132: the call sess.get(request_url, **request_kwargs) *)
KvRequest(kw, vfy) ==
    LET url == urljoin(kw["url"], V1)
        secret_path == kw["secret_path"]
        auth == <<"Bearer", kw["token"]>>
    IN  IF kw["api_version"] = "v2"
        THEN LET rk == IF Truthy(kw, "secret_version")
                       THEN Extend(BaseKwargs(vfy), "params", [version |-> kw["secret_version"]])
                       ELSE BaseKwargs(vfy)
                 d == Decompose(secret_path)
             IN  [exc |-> d.exc, method |-> "GET",
                  url |-> IF d.exc # "" THEN <<>>
                          ELSE rstrip(join(SLASH, <<url, d.mount_point, DATA>> \o d.path), SLASH),
                  kwargs |-> rk, Authorization |-> auth]
        ELSE [exc |-> "", method |-> "GET",
              url |-> rstrip(join(SLASH, <<url, secret_path>>), SLASH),
              kwargs |-> BaseKwargs(vfy), Authorization |-> auth]

(* lines 128-129, 134-144: what kv_backend does with the response *)
KvResult(kw, resp) ==
    IF resp.kind = "neterr" THEN Raise("ConnectionError")
    ELSE IF raise_for_status(resp) THEN Raise("HTTPError")
    ELSE IF ~resp.isjson THEN Raise("JSONDecodeError")
    ELSE LET top == IF kw["api_version"] = "v2" THEN GetItem(resp.body, "data")
                    ELSE [exc |-> "", val |-> resp.body]
         IN  IF top.exc # "" THEN Raise(top.exc)
             ELSE LET json == top.val
                      inner == GetItem(json, "data")
                  IN  IF Truthy(kw, "secret_key")
                      THEN LET secret_key == kw["secret_key"]
                               item == IF inner.exc # "" THEN inner
                                       ELSE GetItem(inner.val, secret_key)
                           IN  IF item.exc = "KeyError"
                               THEN NotPresent(secret_key, kw["secret_path"])
                               ELSE IF item.exc # "" THEN Raise(item.exc)
                               ELSE Return(item.val)
                      ELSE IF inner.exc # "" THEN Raise(inner.exc)
                      ELSE Return(inner.val)

(* A variant of SshRequest that leaves valid_principals out of the body *)
SshRequestNoPrincipals(kw, vfy) ==
    [exc |-> "", method |-> "POST",
     url |-> rstrip(join(SLASH, <<urljoin(kw["url"], V1), kw["secret_path"], SIGN, kw["role"]>>), SLASH),
     kwargs |-> Extend(BaseKwargs(vfy), "json", [public_key |-> kw["public_key"]]),
     Authorization |-> <<"Bearer", kw["token"]>>]

(* lines 158-166: the call sess.post(request_url, **request_kwargs) *)
SshRequest(kw, vfy) ==
    LET url == urljoin(kw["url"], V1)
        body0 == [public_key |-> kw["public_key"]]
        body == IF Truthy(kw, "valid_principals")
                THEN Extend(body0, "valid_principals", kw["valid_principals"])
                ELSE body0
    IN  [exc |-> "", method |-> "POST",
         url |-> rstrip(join(SLASH, <<url, kw["secret_path"], SIGN, kw["role"]>>), SLASH),
         kwargs |-> Extend(BaseKwargs(vfy), "json", body),
         Authorization |-> <<"Bearer", kw["token"]>>]

(* lines 168-169 *)
SshResult(kw, resp) ==
    IF resp.kind = "neterr" THEN Raise("ConnectionError")
    ELSE IF raise_for_status(resp) THEN Raise("HTTPError")
    ELSE IF ~resp.isjson THEN Raise("JSONDecodeError")
    ELSE LET data == GetItem(resp.body, "data")
         IN  IF data.exc # "" THEN Raise(data.exc)
             ELSE LET sk == GetItem(data.val, "signed_key")
                  IN  IF sk.exc # "" THEN Raise(sk.exc) ELSE Return(sk.val)

----------------------------------------------------------------------------
(* State *)

VARIABLES
    pc,        \* pc[i]: where invocation i is: idle, fifo, send, wait, returned, failed
    backend,   \* backend[i]: "kv" or "ssh" once invoked, "" before
    kwargs,    \* kwargs[i]: the parameters of invocation i
    verify,    \* verify[i]: request_kwargs['verify'], <<>> when not set
    request,   \* request[i]: the requests that invocation i has sent, in order
    response,  \* response[i]: what the request of invocation i ended with
    outcome,   \* outcome[i]: the value returned or the exception raised
    dirs,      \* the temporary directories that exist
    pipes,     \* the named pipes that exist, by path
    writer,    \* writer[i]: the thread started by create_temporary_fifo in invocation i
    reader     \* reader[i]: the TLS stack loading request_kwargs['verify'] for invocation i

vars == <<pc, backend, kwargs, verify, request, response, outcome, dirs, pipes, writer, reader>>

Dirs == 1..NInv
(* next(tempfile._get_candidate_names()): a random name.  The model takes the   *)
(* worst case, in which every call draws the same one.                         *)
Names == {"fifo"}
NoPath == <<>>

NoWriter == [pc |-> "none", p |-> NoPath, d |-> <<>>, rest |-> <<>>]
NoReader == [pc |-> "none", got |-> <<>>]
NoResponse == [kind |-> "none", status |-> 0, isjson |-> FALSE, body |-> Null]

(* os.mkfifo(path, stat.S_IRUSR | stat.S_IWUSR): an empty pipe nobody has open. *)
(* wr and rd are the invocations whose writer or reader has it open, everW and  *)
(* everR those that ever had, nwrite the number of write() calls made on it     *)
NewPipe ==
    [mode |-> {"S_IRUSR", "S_IWUSR"}, buf |-> <<>>, wr |-> {}, rd |-> {},
     everW |-> {}, everR |-> {}, nwrite |-> 0]

Init ==
    /\ pc = [i \in Inv |-> "idle"]
    /\ backend = [i \in Inv |-> ""]
    /\ kwargs = [i \in Inv |-> EmptyDict]
    /\ verify = [i \in Inv |-> NoPath]
    /\ request = [i \in Inv |-> <<>>]
    /\ response = [i \in Inv |-> NoResponse]
    /\ outcome = [i \in Inv |-> NoOutcome]
    /\ dirs = {}
    /\ pipes = [p \in {} |-> NewPipe]
    /\ writer = [i \in Inv |-> NoWriter]
    /\ reader = [i \in Inv |-> NoReader]

----------------------------------------------------------------------------
(* create_temporary_fifo *)

(* A variant of mkdtemp that gives the same directory every time, as         *)
(* tempfile.gettempdir() would                                               *)
mkdtempShared(existing) == {1}

(* tempfile.mkdtemp(): a directory that did not exist, under a random name.   *)
(* Which of the unused names it is makes no difference to anything that       *)
(* follows, so the model takes the least.                                      *)
mkdtemp(existing) ==
    {d \in Dirs \ existing : \A e \in Dirs \ existing : d <= e}

(* lines 109-111 and 154-156, with create_temporary_fifo (85-98): with a CA, make *)
(* the pipe in a new directory, start the writer thread on (path, data) and set   *)
(* verify to the path.  The thread goes straight to open(p, 'wb'), which blocks   *)
(* until the pipe is opened for reading.                                          *)
Fifo(i) ==
    /\ pc[i] = "fifo"
    /\ IF Truthy(kwargs[i], "cacert")
       THEN \E d \in mkdtemp(dirs), n \in Names :
              LET path == <<d, n>>
                  data == encode(kwargs[i]["cacert"])
              IN  /\ dirs' = dirs \cup {d}
                  /\ IF path \in DOMAIN pipes
                     THEN \* os.mkfifo: FileExistsError
                          /\ pc' = [pc EXCEPT ![i] = "failed"]
                          /\ outcome' = [outcome EXCEPT ![i] = Raise("FileExistsError")]
                          /\ UNCHANGED <<pipes, writer, verify>>
                     ELSE /\ pipes' = [p \in DOMAIN pipes \cup {path} |->
                                         IF p = path THEN NewPipe ELSE pipes[p]]
                          /\ writer' = [writer EXCEPT ![i] =
                                         [pc |-> "opening", p |-> path, d |-> data, rest |-> data]]
                          /\ verify' = [verify EXCEPT ![i] = path]
                          /\ pc' = [pc EXCEPT ![i] = "send"]
                          /\ UNCHANGED outcome
       ELSE /\ pc' = [pc EXCEPT ![i] = "send"]
            /\ UNCHANGED <<dirs, pipes, writer, verify, outcome>>
    /\ UNCHANGED <<backend, kwargs, request, response, reader>>

(* The TLS stack opens the trust-anchor path for reading.  Opening a FIFO for    *)
(* reading completes when it is open for writing: the writers blocked in         *)
(* open(p, 'wb') on this path return from open at the same moment.               *)
TlsOpen(i) ==
    /\ pc[i] = "wait"
    /\ verify[i] # NoPath
    /\ reader[i].pc = "none"
    /\ LET p == verify[i]
           ws == {j \in Inv : writer[j].pc = "opening" /\ writer[j].p = p}
       IN  /\ p \in DOMAIN pipes
           /\ ws # {}
           /\ writer' = [j \in Inv |-> IF j \in ws THEN [writer[j] EXCEPT !.pc = "writing"]
                                       ELSE writer[j]]
           /\ pipes' = [pipes EXCEPT ![p].wr = @ \cup ws, ![p].everW = @ \cup ws,
                                     ![p].rd = @ \cup {i}, ![p].everR = @ \cup {i}]
    /\ reader' = [reader EXCEPT ![i].pc = "reading"]
    /\ UNCHANGED <<pc, backend, kwargs, verify, request, response, outcome, dirs>>

Min(a, b) == IF a < b THEN a ELSE b

(* A variant of PipeWrite that takes a short write for a full one *)
PipeWriteShort(buf, rest) ==
    LET n == IF PipeCap - Len(buf) < Len(rest) THEN PipeCap - Len(buf) ELSE Len(rest)
    IN  [buf |-> buf \o SubSeq(rest, 1, n), rest |-> <<>>]

(* What one write(2) on the pipe moves: as many of the remaining bytes as fit *)
PipeWrite(buf, rest) ==
    LET n == Min(PipeCap - Len(buf), Len(rest))
    IN  [buf |-> buf \o SubSeq(rest, 1, n), rest |-> SubSeq(rest, n + 1, Len(rest))]

(* write(d) in the writer thread: blocks while the pipe is full *)
WriterWrite(i) ==
    /\ writer[i].pc = "writing"
    /\ writer[i].rest # <<>>
    /\ LET p == writer[i].p
           w == PipeWrite(pipes[p].buf, writer[i].rest)
       IN  /\ Len(pipes[p].buf) < PipeCap
           /\ pipes' = [pipes EXCEPT ![p].buf = w.buf,
                                     ![p].nwrite = IF w.rest = <<>> THEN @ + 1 ELSE @]
           /\ writer' = [writer EXCEPT ![i].rest = w.rest]
    /\ UNCHANGED <<pc, backend, kwargs, verify, request, response, outcome, dirs, reader>>

(* write(d) has returned: the file object is dropped, which flushes it and *)
(* closes the write end                                                    *)
WriterClose(i) ==
    /\ writer[i].pc = "writing"
    /\ writer[i].rest = <<>>
    /\ pipes' = [pipes EXCEPT ![writer[i].p].wr = @ \ {i}]
    /\ writer' = [writer EXCEPT ![i].pc = "closed"]
    /\ UNCHANGED <<pc, backend, kwargs, verify, request, response, outcome, dirs, reader>>

(* The lambda returns and the thread ends *)
WriterExit(i) ==
    /\ writer[i].pc = "closed"
    /\ writer' = [writer EXCEPT ![i].pc = "done"]
    /\ UNCHANGED <<pc, backend, kwargs, verify, request, response, outcome, dirs, pipes, reader>>

(* The TLS stack reads what the pipe holds *)
TlsRead(i) ==
    /\ reader[i].pc = "reading"
    /\ pipes[verify[i]].buf # <<>>
    /\ reader' = [reader EXCEPT ![i].got = @ \o pipes[verify[i]].buf]
    /\ pipes' = [pipes EXCEPT ![verify[i]].buf = <<>>]
    /\ UNCHANGED <<pc, backend, kwargs, verify, request, response, outcome, dirs, writer>>

(* End of file: the pipe is empty and no writer has it open; the reader closes *)
TlsEof(i) ==
    /\ reader[i].pc = "reading"
    /\ pipes[verify[i]].buf = <<>>
    /\ pipes[verify[i]].wr = {}
    /\ reader' = [reader EXCEPT ![i].pc = "done"]
    /\ pipes' = [pipes EXCEPT ![verify[i]].rd = @ \ {i}]
    /\ UNCHANGED <<pc, backend, kwargs, verify, request, response, outcome, dirs, writer>>

----------------------------------------------------------------------------
(* kv_backend *)

(* lines 101-107: kwargs['token'], kwargs['url'], kwargs['secret_path'] and     *)
(* kwargs['api_version'] raise KeyError when missing; secret_key and cacert are *)
(* read with kwargs.get                                                         *)
KvBegin(i, kw) ==
    /\ pc[i] = "idle"
    /\ backend' = [backend EXCEPT ![i] = "kv"]
    /\ kwargs' = [kwargs EXCEPT ![i] = kw]
    /\ LET missing == FirstMissing(kw, <<"token", "url", "secret_path", "api_version">>)
       IN  IF missing # ""
           THEN /\ pc' = [pc EXCEPT ![i] = "failed"]
                /\ outcome' = [outcome EXCEPT ![i] = RaiseKey("KeyError", missing)]
           ELSE /\ pc' = [pc EXCEPT ![i] = "fifo"]
                /\ UNCHANGED outcome
    /\ UNCHANGED <<verify, request, response, dirs, pipes, writer, reader>>

(* lines 113-126, 131-132: build the request and call sess.get *)
KvSend(i) ==
    /\ pc[i] = "send"
    /\ backend[i] = "kv"
    /\ LET r == KvRequest(kwargs[i], verify[i])
       IN  IF r.exc # ""
           THEN /\ pc' = [pc EXCEPT ![i] = "failed"]
                /\ outcome' = [outcome EXCEPT ![i] = Raise(r.exc)]
                /\ UNCHANGED request
           ELSE /\ pc' = [pc EXCEPT ![i] = "wait"]
                /\ request' = [request EXCEPT ![i] = Append(@, r)]
                /\ UNCHANGED outcome
    /\ UNCHANGED <<backend, kwargs, verify, response, dirs, pipes, writer, reader>>

(* The request ends.  A network failure or timeout can come at any time the CA  *)
(* is not being read; an HTTP response comes after the TLS stack has loaded the *)
(* CA, when there is one                                                        *)
Arrives(i, resp) ==
    /\ pc[i] = "wait"
    /\ IF resp.kind = "neterr" THEN reader[i].pc # "reading"
       ELSE verify[i] = NoPath \/ reader[i].pc = "done"

(* lines 126-144: sess.get returns or raises, then raise_for_status and the rest *)
KvReceive(i, resp) ==
    /\ backend[i] = "kv"
    /\ Arrives(i, resp)
    /\ response' = [response EXCEPT ![i] = resp]
    /\ LET o == KvResult(kwargs[i], resp)
       IN  /\ outcome' = [outcome EXCEPT ![i] = o]
           /\ pc' = [pc EXCEPT ![i] = IF o.kind = "value" THEN "returned" ELSE "failed"]
    /\ UNCHANGED <<backend, kwargs, verify, request, dirs, pipes, writer, reader>>

----------------------------------------------------------------------------
(* ssh_backend *)

(* lines 147-152 *)
SshBegin(i, kw) ==
    /\ pc[i] = "idle"
    /\ backend' = [backend EXCEPT ![i] = "ssh"]
    /\ kwargs' = [kwargs EXCEPT ![i] = kw]
    /\ LET missing == FirstMissing(kw, <<"token", "url", "secret_path", "role">>)
       IN  IF missing # ""
           THEN /\ pc' = [pc EXCEPT ![i] = "failed"]
                /\ outcome' = [outcome EXCEPT ![i] = RaiseKey("KeyError", missing)]
           ELSE /\ pc' = [pc EXCEPT ![i] = "fifo"]
                /\ UNCHANGED outcome
    /\ UNCHANGED <<verify, request, response, dirs, pipes, writer, reader>>

(* lines 158-166: kwargs['public_key'] raises KeyError when missing *)
SshSend(i) ==
    /\ pc[i] = "send"
    /\ backend[i] = "ssh"
    /\ IF "public_key" \notin DOMAIN kwargs[i]
       THEN /\ pc' = [pc EXCEPT ![i] = "failed"]
            /\ outcome' = [outcome EXCEPT ![i] = RaiseKey("KeyError", "public_key")]
            /\ UNCHANGED request
       ELSE /\ pc' = [pc EXCEPT ![i] = "wait"]
            /\ request' = [request EXCEPT ![i] = Append(@, SshRequest(kwargs[i], verify[i]))]
            /\ UNCHANGED outcome
    /\ UNCHANGED <<backend, kwargs, verify, response, dirs, pipes, writer, reader>>

(* lines 166-169 *)
SshReceive(i, resp) ==
    /\ backend[i] = "ssh"
    /\ Arrives(i, resp)
    /\ response' = [response EXCEPT ![i] = resp]
    /\ LET o == SshResult(kwargs[i], resp)
       IN  /\ outcome' = [outcome EXCEPT ![i] = o]
           /\ pc' = [pc EXCEPT ![i] = IF o.kind = "value" THEN "returned" ELSE "failed"]
    /\ UNCHANGED <<backend, kwargs, verify, request, dirs, pipes, writer, reader>>

----------------------------------------------------------------------------
(* Inputs *)

Strings(chars, n) == UNION {[1..k -> chars] : k \in 0..n}

ORIGIN == "https://vault:8200"
Urls ==
    { <<ORIGIN>>, <<ORIGIN, "/">>, <<ORIGIN, "/", "n">>, <<ORIGIN, "/", "n", "/">> }

PathChars == {"/", "a", "."}
LongPaths ==
    { <<"a", "/", ".", ".", "/", "a", "a">>, <<"/", "a", "/", "a", "a", "/", "a", "/">>,
      <<"a", "/", "/", "a", "/", ".", "/", "a">> }
Paths == Strings(PathChars, MaxLen) \cup LongPaths

(* CA texts: "A", "A\u00e9", "A\u00e9A", ... of 1..MaxCa characters *)
CaText(n) == [k \in 1..n |-> IF k % 2 = 1 THEN 65 ELSE 233]
CaTexts == {CaText(n) : n \in 1..MaxCa}

KvAll(url, path, api, key, ver, ca) ==
    [k \in {"url", "token", "secret_path", "api_version", "secret_key", "secret_version", "cacert"} |->
        CASE k = "url" -> url
          [] k = "token" -> "s.token"
          [] k = "secret_path" -> path
          [] k = "api_version" -> api
          [] k = "secret_key" -> key
          [] k = "secret_version" -> ver
          [] k = "cacert" -> ca]

SshAll(url, path, role, pk, vp, ca) ==
    [k \in {"url", "token", "secret_path", "role", "public_key", "valid_principals", "cacert"} |->
        CASE k = "url" -> url
          [] k = "token" -> "s.token"
          [] k = "secret_path" -> path
          [] k = "role" -> role
          [] k = "public_key" -> pk
          [] k = "valid_principals" -> vp
          [] k = "cacert" -> ca]

KvPlain == KvAll(<<ORIGIN>>, <<"a">>, "v1", "foo", "", <<>>)
SshPlain == SshAll(<<ORIGIN>>, <<"a">>, <<"r">>, "ssh-rsa AAAA", "", <<>>)

(* Invocations that differ in the CA they supply, or supply none *)
KvWithCa == {Drop(KvPlain, {"cacert"}), [KvPlain EXCEPT !["cacert"] = CaText(MaxCa)]}
SshWithCa == {SshPlain, [SshPlain EXCEPT !["cacert"] = CaText(1)]}

(* Invocations that differ in which parameters they supply *)
KvParams ==
    LET full == {KvAll(<<ORIGIN>>, <<"a", "/", "a">>, api, key, "", ca) :
                   api \in {"v1", "v2"}, key \in {"", "foo", "qux"}, ca \in {<<>>, <<65>>}}
    IN  full \cup {Drop(kw, {k}) : kw \in full,
                     k \in {"url", "token", "secret_path", "api_version", "secret_key"}}
SshParams ==
    LET full == {SshAll(<<ORIGIN>>, <<"s", "/">>, <<"r">>, "ssh-rsa AAAA", vp, ca) :
                   vp \in {"", "alice,bob"}, ca \in {<<>>, <<65>>}}
    IN  full \cup {Drop(kw, {k}) : kw \in full,
                     k \in {"url", "token", "secret_path", "public_key", "role", "valid_principals"}}

(* Invocations that differ in the server URL, the secret location and the version *)
KvPaths ==
    {Drop(KvAll(url, path, api, "foo", "", <<>>), {"secret_version", "cacert"}) :
        url \in Urls, path \in Paths, api \in {"v1", "v2"}}
    \cup {Drop(KvAll(<<ORIGIN>>, path, api, "foo", ver, <<>>), {"cacert"}) :
        path \in Paths, api \in {"v1", "v2"}, ver \in {"", "2"}}

(* Response bodies *)
Dict(ks, v) == Obj([k \in ks |-> v])
Secrets ==
    { Obj(EmptyDict), Dict({"foo"}, Str("bar")),
      Obj([k \in {"foo", "qux"} |-> IF k = "foo" THEN Str("bar") ELSE Str("baz")]) }
Versioned ==
    {Obj([k \in {"data", "metadata"} |-> IF k = "data" THEN m ELSE Obj(EmptyDict)]) : m \in Secrets}
        \cup { Dict({"metadata"}, Obj(EmptyDict)),
               Obj([k \in {"data", "metadata"} |-> IF k = "data" THEN Null ELSE Obj(EmptyDict)]) }
Signed == { Dict({"signed_key"}, Str("ssh-rsa-cert")), Dict({"serial_number"}, Str("17")) }
Bodies ==
    {Dict({"data"}, x) : x \in Secrets \cup Versioned \cup Signed \cup {Null}}
        \cup { Obj(EmptyDict), Dict({"errors"}, Str("denied")), Str("ok") }

Statuses == {200, 204, 304, 404, 500}
Responses == {NetErr} \cup {Http(st, b) : st \in Statuses, b \in Bodies}
                \cup {HttpText(st) : st \in Statuses}

GoodBody ==
    Dict({"data"}, Obj([k \in {"foo", "signed_key"} |->
                          IF k = "foo" THEN Str("bar") ELSE Str("ssh-rsa-cert")]))
FewResponses == {NetErr, Http(200, GoodBody)}

----------------------------------------------------------------------------
(* Specifications *)

Step(I, KvInputs, SshInputs, Resps) ==
    \E i \in I :
        \/ \E kw \in KvInputs : KvBegin(i, kw)
        \/ \E kw \in SshInputs : SshBegin(i, kw)
        \/ Fifo(i)
        \/ KvSend(i)
        \/ SshSend(i)
        \/ TlsOpen(i)
        \/ WriterWrite(i)
        \/ TlsRead(i)
        \/ WriterClose(i)
        \/ WriterExit(i)
        \/ TlsEof(i)
        \/ \E resp \in Resps : KvReceive(i, resp)
        \/ \E resp \in Resps : SshReceive(i, resp)

(* Concurrent invocations of either backend *)
Next == Step(Inv, KvWithCa, SshWithCa, FewResponses)
Spec == Init /\ [][Next]_vars

(* Two concurrent invocations, with the scheduler letting every writer thread  *)
(* and every reader that can take a step take one eventually.  Nothing is      *)
(* assumed of the host starting invocations or of the remote service.          *)
Pair == {1, 2}
NextPair == Step(Pair, KvWithCa, SshWithCa, FewResponses)
FairSpec ==
    /\ Init /\ [][NextPair]_vars
    /\ \A i \in Pair : WF_vars(WriterWrite(i) \/ WriterClose(i) \/ WriterExit(i))
    /\ \A i \in Pair : WF_vars(TlsRead(i) \/ TlsEof(i))

(* One invocation, over the parameters it may lack and the responses it may get *)
NextSeq == Step({1}, KvParams \cup KvWithCa, SshParams \cup SshWithCa, Responses)
SeqSpec == Init /\ [][NextSeq]_vars

(* One invocation, over server URLs and secret locations *)
NextUrl == Step({1}, KvPaths \cup KvWithCa, SshWithCa, FewResponses)
UrlSpec == Init /\ [][NextUrl]_vars

----------------------------------------------------------------------------
(* Properties of create_temporary_fifo *)

IsPrefix(a, b) == Len(a) <= Len(b) /\ SubSeq(b, 1, Len(a)) = a

Ended(i) == pc[i] \in {"returned", "failed"}
HasPipe(i) == verify[i] # NoPath

(* The bytes invocation i passed to create_temporary_fifo *)
CaBytes(i) == encode(kwargs[i]["cacert"])

(* C1: a reader that opens the returned path receives exactly the bytes that   *)
(* were passed to create_temporary_fifo, in order, and nothing else; and once  *)
(* the reader has opened the path, the read finishes and the writer thread     *)
(* unblocks and terminates.                                                    *)
C1_ReaderGetsBytesWriterEnds ==
    /\ [](\A i \in Inv :
            /\ reader[i].pc # "none" => IsPrefix(reader[i].got, CaBytes(i))
            /\ reader[i].pc = "done" => reader[i].got = CaBytes(i) /\ CaBytes(i) # <<>>)
    /\ \A i \in Inv : (reader[i].pc = "reading") ~> (reader[i].pc = "done" /\ writer[i].pc = "done")

(* C1 witness: a CA of more bytes than the pipe holds has been read whole and  *)
(* its writer thread has ended                                                 *)
C1_Witness ==
    \E i \in Inv :
        /\ reader[i].pc = "done"
        /\ writer[i].pc = "done"
        /\ Len(CaBytes(i)) > PipeCap
        /\ reader[i].got = CaBytes(i)

(* What C2 says of paths, writers, readers and bytes, short of the count of    *)
(* messages                                                                    *)
PipesApart ==
    /\ \A i \in Inv :
         /\ pc[i] = "fifo" => ENABLED Fifo(i)
         /\ outcome[i].exc # "FileExistsError"
         /\ pc[i] \in {"send", "wait"} /\ Truthy(kwargs[i], "cacert") => HasPipe(i)
         /\ reader[i].pc # "none" => IsPrefix(reader[i].got, CaBytes(i))
    /\ \A i, j \in Inv : i # j /\ HasPipe(i) /\ HasPipe(j) => verify[i] # verify[j]
    /\ \A p \in DOMAIN pipes :
         /\ Cardinality(pipes[p].everW) <= 1
         /\ Cardinality(pipes[p].everR) <= 1
         /\ pipes[p].nwrite <= 1

(* The messages that have gone through the pipe of invocation i: written in    *)
(* full by a writer and read in full by the reader                             *)
Transferred(i) ==
    IF reader[i].pc = "done" /\ reader[i].got # <<>> THEN pipes[verify[i]].nwrite ELSE 0

(* C2 as stated: create_temporary_fifo never blocks its caller, paths are      *)
(* distinct, a pipe has at most one writer and one reader, no reader gets the  *)
(* bytes of another invocation, and exactly one message is transferred on the  *)
(* pipe of every invocation.                                                   *)
C2_ExactlyOneMessagePerPipe ==
    /\ PipesApart
    /\ \A i \in Inv : Ended(i) /\ HasPipe(i) => Transferred(i) = 1

(* C2 amended: the same, with at most one message per pipe: exactly one, the   *)
(* invocation's own CA bytes, once the reader has read the pipe to its end,    *)
(* and none when the invocation ends without the pipe having been opened.      *)
C2_AtMostOneMessagePerPipe ==
    /\ PipesApart
    /\ \A i \in Inv :
         /\ HasPipe(i) => Transferred(i) <= 1
         /\ reader[i].pc = "done" => Transferred(i) = 1 /\ reader[i].got = CaBytes(i)
         /\ Ended(i) /\ HasPipe(i) /\ reader[i].pc = "none" => Transferred(i) = 0

(* C2 witness: two invocations have ended, each with a pipe of its own that    *)
(* carried its own CA, the two CAs being different                             *)
C2_Witness ==
    \E i, j \in Inv :
        /\ i # j
        /\ Ended(i) /\ Ended(j)
        /\ reader[i].pc = "done" /\ reader[j].pc = "done"
        /\ verify[i] # verify[j]
        /\ reader[i].got # reader[j].got
        /\ Transferred(i) = 1 /\ Transferred(j) = 1

(* C3: once an invocation has returned or failed, nothing it created is left:  *)
(* its writer thread is not blocked on the pipe or writing, and neither its    *)
(* pipe nor its temporary directory exists.                                    *)
C3_NothingPersists ==
    \A i \in Inv :
        Ended(i) =>
            /\ writer[i].pc \in {"none", "done"}
            /\ HasPipe(i) => verify[i] \notin DOMAIN pipes /\ verify[i][1] \notin dirs

----------------------------------------------------------------------------
(* Properties of kv_backend and ssh_backend *)

Sent(i) == request[i] # <<>>
Answered(i) == response[i].kind = "http"
Is2xx(resp) == resp.kind = "http" /\ 200 <= resp.status /\ resp.status < 300

(* The required sets of the two backends: base_inputs['required'] extended *)
Required(b) ==
    IF b = "kv" THEN {"url", "token", "secret_path", "api_version", "secret_key"}
    ELSE {"url", "token", "secret_path", "public_key", "role"}

(* C4: an invocation that lacks a parameter of its backend's required set     *)
(* sends no HTTP request and ends with a configuration error (KeyError).      *)
C4_MissingParameterFails ==
    \A i \in Inv :
        backend[i] # "" /\ Required(backend[i]) \ DOMAIN kwargs[i] # {} =>
            /\ ~Sent(i)
            /\ pc[i] # "returned"
            /\ Ended(i) => outcome[i].exc = "KeyError"

(* C5 as stated: a response whose status is not 2xx makes the invocation fail *)
(* with a transport error whatever the body is, and one request was sent.     *)
C5_Non2xxFails ==
    \A i \in Inv :
        Answered(i) /\ ~Is2xx(response[i]) =>
            outcome[i] = Raise("HTTPError") /\ pc[i] = "failed" /\ Len(request[i]) = 1

(* C5 amended: a response whose status is 4xx or 5xx makes the invocation     *)
(* fail with a transport error whatever the body is, no value is returned,    *)
(* and the invocation has sent exactly one request.  Every answered           *)
(* invocation has sent exactly one request.                                   *)
C5_ErrorStatusFails ==
    \A i \in Inv :
        /\ Answered(i) => Len(request[i]) = 1
        /\ Len(request[i]) <= 1
        /\ Answered(i) /\ 400 <= response[i].status /\ response[i].status < 600 =>
              outcome[i] = Raise("HTTPError") /\ pc[i] = "failed"

(* C5 witness: an invocation got a 404 whose body holds a value, and failed *)
C5_Witness ==
    \E i \in Inv :
        /\ Answered(i) /\ response[i].status = 404 /\ response[i].isjson
        /\ GetItem(response[i].body, "data").exc = ""
        /\ outcome[i].exc = "HTTPError"

(* x[k1][k2]...: ok is FALSE when a key is missing or x is no dict on the way *)
RECURSIVE At(_, _)
At(x, ks) ==
    IF ks = <<>> THEN [ok |-> TRUE, val |-> x]
    ELSE IF x.kind = "obj" /\ Head(ks) \in DOMAIN x.val THEN At(x.val[Head(ks)], Tail(ks))
    ELSE [ok |-> FALSE, val |-> Null]

(* Where the secret mapping is in the response: data.data for v2, data for v1 *)
MappingAt(kw) == IF kw["api_version"] = "v2" THEN <<"data", "data">> ELSE <<"data">>
Mapping(i) == At(response[i].body, MappingAt(kwargs[i]))
HasShape(i) == Mapping(i).ok /\ Mapping(i).val.kind = "obj"
KeyNotFound(i) == outcome[i].kind = "raise" /\ outcome[i].exc = "RuntimeError"

(* C6: on a 2xx JSON response, kv_backend fails with the key-not-found error   *)
(* exactly when a key name was supplied, the response has the expected shape   *)
(* and the key is not in the mapping; the error names the key and the          *)
(* location; a response without the expected data field is never reported as  *)
(* key-not-found.                                                               *)
C6_KeyNotFoundExactly ==
    \A i \in Inv :
        backend[i] = "kv" /\ Is2xx(response[i]) /\ response[i].isjson =>
            /\ KeyNotFound(i) <=>
                  /\ Truthy(kwargs[i], "secret_key")
                  /\ HasShape(i)
                  /\ kwargs[i]["secret_key"] \notin DOMAIN Mapping(i).val.val
            /\ KeyNotFound(i) =>
                  outcome[i].key = kwargs[i]["secret_key"]
                  /\ outcome[i].path = kwargs[i]["secret_path"]
            /\ ~Mapping(i).ok => outcome[i].kind = "raise" /\ ~KeyNotFound(i)

(* C7: on a 2xx JSON response with a secret mapping, kv_backend returns the    *)
(* value under the key name when one was supplied and is in the mapping, and   *)
(* the whole mapping when none was supplied; and whatever the response, an     *)
(* invocation that returns returns one of these two, whole.                    *)
C7_KvReturnsFromMapping ==
    \A i \in Inv :
        backend[i] = "kv" =>
            /\ Is2xx(response[i]) /\ response[i].isjson /\ HasShape(i) =>
                 /\ Truthy(kwargs[i], "secret_key")
                    /\ kwargs[i]["secret_key"] \in DOMAIN Mapping(i).val.val
                       => outcome[i] = Return(Mapping(i).val.val[kwargs[i]["secret_key"]])
                 /\ ~Truthy(kwargs[i], "secret_key") => outcome[i] = Return(Mapping(i).val)
            /\ pc[i] = "returned" =>
                 /\ Answered(i) /\ response[i].isjson /\ Mapping(i).ok
                 /\ outcome[i].kind = "value"
                 /\ IF Truthy(kwargs[i], "secret_key")
                    THEN /\ HasShape(i)
                         /\ kwargs[i]["secret_key"] \in DOMAIN Mapping(i).val.val
                         /\ outcome[i].val = Mapping(i).val.val[kwargs[i]["secret_key"]]
                    ELSE outcome[i].val = Mapping(i).val
            /\ Ended(i) => (pc[i] = "returned") # (outcome[i].kind = "raise")

(* C7 witness: v2 with key name foo returned "bar" out of a data.data that     *)
(* holds two keys                                                              *)
C7_Witness ==
    \E i \in Inv :
        /\ backend[i] = "kv" /\ pc[i] = "returned"
        /\ kwargs[i]["api_version"] = "v2"
        /\ Truthy(kwargs[i], "secret_key") /\ kwargs[i]["secret_key"] = "foo"
        /\ outcome[i].val = Str("bar")
        /\ "qux" \in DOMAIN Mapping(i).val.val

(* The text s without its trailing slashes *)
StripSlashes(s) ==
    LET ks == {k \in 0..Len(s) : \A m \in (k + 1)..Len(s) : s[m] = SLASH}
    IN  SubSeq(s, 1, CHOOSE k \in ks : \A m \in ks : k <= m)

(* <server URL>/v1 *)
NaiveBase(url) == url \o <<SLASH>> \o V1

(* The server URL resolved against the relative reference v1 *)
ResolvedBase(url) ==
    IF Len(url) = 1 THEN url \o <<SLASH>> \o V1
    ELSE LET ks == {k \in 2..Len(url) : url[k] = SLASH}
         IN  SubSeq(url, 1, CHOOSE k \in ks : \A m \in ks : m <= k) \o V1

(* <base>/<mount_point>/data[/<sub_path>] for v2, <base>/<secret location>     *)
(* otherwise, trailing slashes stripped                                        *)
KvUrl(base, kw) ==
    IF kw["api_version"] = "v2"
    THEN LET d == Decompose(kw["secret_path"])
             sub_path == join(SLASH, d.path)
         IN  StripSlashes(base \o <<SLASH>> \o d.mount_point \o <<SLASH>> \o DATA
                            \o (IF sub_path = <<>> THEN <<>> ELSE <<SLASH>> \o sub_path))
    ELSE StripSlashes(base \o <<SLASH>> \o kw["secret_path"])

(* The version query parameter is there if and only if api_version is v2 and   *)
(* a version was supplied; there is no other query parameter                   *)
VersionParam(i) ==
    LET rk == request[i][1].kwargs
        wanted == kwargs[i]["api_version"] = "v2" /\ Truthy(kwargs[i], "secret_version")
    IN  /\ "params" \in DOMAIN rk <=> wanted
        /\ wanted => rk["params"] = [version |-> kwargs[i]["secret_version"]]

(* C8 as stated: the one GET of kv_backend goes to the stated path under       *)
(* <server URL>/v1, with the version parameter iff v2 and a version supplied.  *)
C8_KvUrlUnderServerUrl ==
    \A i \in Inv :
        backend[i] = "kv" /\ Sent(i) =>
            /\ Len(request[i]) = 1 /\ request[i][1].method = "GET"
            /\ request[i][1].url = KvUrl(NaiveBase(kwargs[i]["url"]), kwargs[i])
            /\ VersionParam(i)

(* C8 amended: the same with base the server URL resolved against the relative *)
(* reference v1: <server URL>/v1 when the server URL has no path, and the      *)
(* server URL up to its last "/" followed by v1 when it has one.               *)
C8_KvUrlUnderResolvedBase ==
    \A i \in Inv :
        backend[i] = "kv" /\ Sent(i) =>
            /\ Len(request[i]) = 1 /\ request[i][1].method = "GET"
            /\ request[i][1].url = KvUrl(ResolvedBase(kwargs[i]["url"]), kwargs[i])
            /\ VersionParam(i)

(* C8 witness: a v2 request with a sub-path and a version, and the server URL  *)
(* with a path                                                                 *)
C8_Witness ==
    \E i \in Inv :
        /\ backend[i] = "kv" /\ Sent(i)
        /\ kwargs[i]["api_version"] = "v2"
        /\ "params" \in DOMAIN request[i][1].kwargs
        /\ Len(Decompose(kwargs[i]["secret_path"]).path) = 2
        /\ kwargs[i]["secret_path"][Len(kwargs[i]["secret_path"])] = SLASH

(* The path segments of s: the maximal runs without "/", "." left out *)
EndOf(s, k) ==
    CHOOSE e \in k..Len(s) :
        (e = Len(s) \/ s[e + 1] = SLASH) /\ \A m \in k..e : s[m] # SLASH

RECURSIVE SegmentsFrom(_, _)
SegmentsFrom(s, k) ==
    IF k > Len(s) THEN <<>>
    ELSE IF s[k] = SLASH THEN SegmentsFrom(s, k + 1)
    ELSE LET e == EndOf(s, k)
             seg == SubSeq(s, k, e)
         IN  (IF seg = <<".">> THEN <<>> ELSE <<seg>>) \o SegmentsFrom(s, e + 1)

Segments(s) == SegmentsFrom(s, 1)

RECURSIVE Rejoin(_)
Rejoin(segs) ==
    IF segs = <<>> THEN <<>>
    ELSE IF Len(segs) = 1 THEN segs[1]
    ELSE Rejoin(SubSeq(segs, 1, Len(segs) - 1)) \o <<SLASH>> \o segs[Len(segs)]

NoSlash(s) == \A k \in 1..Len(s) : s[k] # SLASH

(* C9: in the v2 branch, for a location that is not empty, the decomposition   *)
(* does not fail (the request is sent); the request goes to                    *)
(* <base>/<mount_point>/data[/<sub_path>] with mount_point the first path      *)
(* segment and sub_path the other segments rejoined with "/"; a location of    *)
(* one segment gives mount_point the location and no sub_path; a location      *)
(* without any segment gives mount_point the whole location and no sub_path.   *)
C9_DecompositionNeverFails ==
    \A i \in Inv :
        /\ backend[i] = "kv"
        /\ pc[i] \notin {"idle", "fifo", "send"}
        /\ Required("kv") \ {"secret_key"} \subseteq DOMAIN kwargs[i]
        /\ kwargs[i]["api_version"] = "v2"
        /\ kwargs[i]["secret_path"] # <<>>
        => LET s == kwargs[i]["secret_path"]
               segs == Segments(s)
               mount_point == IF segs = <<>> THEN s ELSE segs[1]
               sub_path == IF segs = <<>> THEN <<>> ELSE Rejoin(Tail(segs))
               base == urljoin(kwargs[i]["url"], V1)
           IN  /\ Sent(i)
               /\ outcome[i].exc # "ValueError"
               /\ NoSlash(s) => mount_point = s /\ sub_path = <<>>
               /\ request[i][1].url =
                     base \o <<SLASH>> \o mount_point \o <<SLASH>> \o DATA
                          \o (IF sub_path = <<>> THEN <<>> ELSE <<SLASH>> \o sub_path)

(* C9 witness: a v2 request was sent for a location made of slashes only, for  *)
(* which the unpacking raises                                                  *)
C9_Witness ==
    \E i \in Inv :
        /\ backend[i] = "kv" /\ Sent(i) /\ kwargs[i]["api_version"] = "v2"
        /\ kwargs[i]["secret_path"] = <<SLASH, SLASH>>
        /\ Unpack(PathParts(lstrip(kwargs[i]["secret_path"], SLASH))).exc = "ValueError"

(* C10: ssh_backend sends one POST to <base>/<secret location>/sign/<role>     *)
(* whose JSON body is {public_key: P}, with valid_principals: L added exactly  *)
(* when principals were supplied; on a 2xx response it returns                 *)
(* data.signed_key, and fails when the response lacks data or signed_key.      *)
C10_SshSignsKey ==
    \A i \in Inv :
        backend[i] = "ssh" =>
            /\ Sent(i) =>
                 LET r == request[i][1]
                     kw == kwargs[i]
                 IN  /\ Len(request[i]) = 1
                     /\ r.method = "POST"
                     /\ r.url = ResolvedBase(kw["url"]) \o <<SLASH>> \o kw["secret_path"]
                                  \o <<SLASH>> \o SIGN \o <<SLASH>> \o kw["role"]
                     /\ "json" \in DOMAIN r.kwargs
                     /\ r.kwargs["json"] =
                          IF Truthy(kw, "valid_principals")
                          THEN [public_key |-> kw["public_key"],
                                valid_principals |-> kw["valid_principals"]]
                          ELSE [public_key |-> kw["public_key"]]
            /\ Is2xx(response[i]) /\ response[i].isjson =>
                 LET sk == At(response[i].body, <<"data", "signed_key">>)
                 IN  IF sk.ok THEN outcome[i] = Return(sk.val)
                     ELSE pc[i] = "failed" /\ outcome[i].kind = "raise"
            /\ pc[i] = "returned" =>
                 outcome[i].val = At(response[i].body, <<"data", "signed_key">>).val
                 /\ At(response[i].body, <<"data", "signed_key">>).ok

(* C10 witness: a signed key came back for a request that named principals *)
C10_Witness ==
    \E i \in Inv :
        /\ backend[i] = "ssh" /\ pc[i] = "returned"
        /\ "valid_principals" \in DOMAIN request[i][1].kwargs["json"]
        /\ outcome[i].val = Str("ssh-rsa-cert")

====
